---- MODULE Spec2Model ----
(***************************************************************************)
(* Animation playback and blend state machine of the gods native engine.   *)
(*                                                                         *)
(* State: the model registry g_models (model_loader.cpp), the blend-state  *)
(* vector g_blendStates (animation_system.cpp) and the renderer's          *)
(* initialized flag (renderer.cpp).  Operations: the host-facing calls of  *)
(* gods_engine.cpp (load, unload, set, blend, stop, render frame), and the *)
(* sampling and pose functions of animation_system.h for native callers.   *)
(*                                                                         *)
(* Numbers.  Times (dt, blendTime, animationTime, clip durations) are      *)
(* integers counting a fixed time unit.  blendProgress is a float that the *)
(* code divides by blendTime, so it is modelled as an extended rational:   *)
(* a finite fraction n/d in lowest terms, +inf, -inf or NaN, with the IEEE *)
(* rules for x/0, inf and NaN.  Rounding of finite values is not modelled. *)
(***************************************************************************)
EXTENDS Integers, Sequences, FiniteSets, TLC

VARIABLES
    g_models,               \* model_loader.cpp: id -> Model, the loaded models
    g_nextModelId,          \* model_loader.cpp: the id the next load hands out
    g_blendStates,          \* animation_system.cpp: the vector of BlendState
    g_rendererInitialized,  \* renderer.cpp: g_renderer.initialized
    movedFromName,          \* the build: what std::move leaves in clip.name
    last,                   \* history: the last call, its model and outcome
    watch,                  \* history: the last blend request and the dt since
    threads                 \* host threads inside animation_blend: position, locals

vars == <<g_models, g_nextModelId, g_blendStates, g_rendererInitialized,
          movedFromName, last, watch, threads>>

(***************************************************************************)
(* Bounds of the model.                                                    *)
(***************************************************************************)
\* Model identifiers the host uses in commands: 1..MaxModels.
MaxModels == 2
\* Largest frame delta time; frames have dt in 0..MaxDt.
MaxDt == 2
\* Largest blendTime the host requests.
MaxBlendTime == 2
\* The host also requests blendTime down to -MaxNegBlendTime.
MaxNegBlendTime == 1
\* Frames are explored while every animationTime stays <= MaxTime.
MaxTime == 2
\* Frames are explored while every blendProgress stays >= -MaxLag.
MaxLag == 1

\* Sampled channels have up to MaxKeyframes keyframes.
MaxKeyframes == 3
\* Keyframe values are 0..MaxKeyValue.
MaxKeyValue == 1
\* Samples are explored while every joint's scale entry is a fraction with
\* numerator and denominator within MaxScaleTerm.
MaxScaleTerm == 2

\* The longest quaternion among the rotation keyframe values.
MaxQuatLen == 2
\* Up to MaxThreads host threads call animation_blend at the same time.
MaxThreads == 2
\* Threads are explored while g_blendStates holds up to MaxBlendStates.
MaxBlendStates == 2

ModelIds == 1..MaxModels
Threads == 1..MaxThreads
Dts == 0..MaxDt
BlendTimes == (0 - MaxNegBlendTime)..MaxBlendTime

(***************************************************************************)
(* Floats as extended rationals.                                           *)
(***************************************************************************)
RECURSIVE GCD(_, _)
GCD(a, b) == IF b = 0 THEN a ELSE GCD(b, a % b)

Abs(x) == IF x < 0 THEN 0 - x ELSE x

FNaN == [k |-> "nan", n |-> 0, d |-> 1]
FInf == [k |-> "inf", n |-> 0, d |-> 1]
FNegInf == [k |-> "ninf", n |-> 0, d |-> 1]

\* The finite value n/d (d # 0), in lowest terms with a positive denominator.
FRat(n, d) ==
    LET g == GCD(Abs(n), Abs(d))
        s == IF d < 0 THEN 0 - 1 ELSE 1
    IN [k |-> "fin", n |-> (s * n) \div g, d |-> (s * d) \div g]

FInt(i) == [k |-> "fin", n |-> i, d |-> 1]

\* a / b for float values holding the integers a and b.
FDiv(a, b) ==
    IF b # 0 THEN FRat(a, b)
    ELSE IF a > 0 THEN FInf
    ELSE IF a < 0 THEN FNegInf
    ELSE FNaN

\* x + y
FAdd(x, y) ==
    IF x.k = "nan" \/ y.k = "nan" THEN FNaN
    ELSE IF x.k = "fin" /\ y.k = "fin" THEN FRat(x.n * y.d + y.n * x.d, x.d * y.d)
    ELSE IF x.k = "fin" THEN y
    ELSE IF y.k = "fin" THEN x
    ELSE IF x.k = y.k THEN x
    ELSE FNaN

\* -x
FNeg(x) ==
    IF x.k = "fin" THEN FRat(0 - x.n, x.d)
    ELSE IF x.k = "inf" THEN FNegInf
    ELSE IF x.k = "ninf" THEN FInf
    ELSE FNaN

\* x - y
FSub(x, y) == FAdd(x, FNeg(y))

\* x * y
FMul(x, y) ==
    IF x.k = "nan" \/ y.k = "nan" THEN FNaN
    ELSE IF x.k = "fin" /\ y.k = "fin" THEN FRat(x.n * y.n, x.d * y.d)
    ELSE IF (x.k = "fin" /\ x.n = 0) \/ (y.k = "fin" /\ y.n = 0) THEN FNaN
    ELSE LET neg(z) == z.k = "ninf" \/ (z.k = "fin" /\ z.n < 0)
         IN IF neg(x) = neg(y) THEN FInf ELSE FNegInf

\* x / y for finite x and finite y # 0.
FQuot(x, y) == FRat(x.n * y.d, x.d * y.n)

\* std::sqrt(x) for a finite x >= 0 that is the square of a fraction.
FSqrt(x) ==
    FRat(CHOOSE r \in 0..x.n : r * r = x.n, CHOOSE r \in 1..x.d : r * r = x.d)

\* x is the square of a fraction.
IsSquare(x) ==
    /\ \E r \in 0..x.n : r * r = x.n
    /\ \E r \in 1..x.d : r * r = x.d

\* x >= y; false when either side is NaN.
FGe(x, y) ==
    IF x.k = "nan" \/ y.k = "nan" THEN FALSE
    ELSE IF x.k = "inf" \/ y.k = "ninf" THEN TRUE
    ELSE IF x.k = "ninf" \/ y.k = "inf" THEN FALSE
    ELSE x.n * y.d >= y.n * x.d

\* x < y; false when either side is NaN.
FLt(x, y) == x.k # "nan" /\ y.k # "nan" /\ ~FGe(x, y)

(***************************************************************************)
(* 4x4 matrices (float[16]).  Of the sixteen entries the model keeps       *)
(* entry 0 (the x scale), entry 12 (the x translation) and entry 15; the   *)
(* matrices it handles have the entries of the identity everywhere else,   *)
(* a form that mat4_multiply preserves.                                    *)
(***************************************************************************)
Mat(m0, m12, m15) == [m0 |-> m0, m12 |-> m12, m15 |-> m15]

IdentityMat == Mat(FInt(1), FInt(0), FInt(1))

\* The content of a std::vector<float> after construction: all zero.
ZeroMat == Mat(FInt(0), FInt(0), FInt(0))

\* out[i*4+j] = sum over k of a[i*4+k] * b[k*4+j], for the entries kept.
mat4_multiply(a, b) ==
    Mat(FMul(a.m0, b.m0),
        FAdd(FMul(a.m12, b.m0), FMul(a.m15, b.m12)),
        FMul(a.m15, b.m15))

(***************************************************************************)
(* Asset files: what model_load reads from a glTF file.  A keyframe holds  *)
(* its time and the first component of its value; channels animate the     *)
(* translation or the scale of a joint.                                    *)
(***************************************************************************)
Keyframe(time, value) == [time |-> time, value |-> value]

Channel(jointIndex, property, keyframes) ==
    [jointIndex |-> jointIndex, property |-> property, keyframes |-> keyframes]

\* The largest keyframe time of the channels, 0 if there is none: the
\* duration model_load gives a clip.
ClipDuration(channels) ==
    LET times == UNION {{channels[c].keyframes[k].time :
                             k \in 1..Len(channels[c].keyframes)} :
                        c \in 1..Len(channels)}
    IN IF \E t \in times : t > 0
       THEN CHOOSE t \in times : \A u \in times : u <= t
       ELSE 0

\* An animation of the file, as the AnimationClip model_load builds from it.
Clip(name, channels) ==
    [name |-> name, duration |-> ClipDuration(channels), channels |-> channels]

\* A node of the file: its name and the indices of its child nodes.
Node(name, children) == [name |-> name, children |-> children]

\* A channel of an animation of the file: the index of the node it
\* targets, the path ("translation" or "scale") and the keyframes read
\* through its sampler.
GltfChannel(target_node, target_path, keyframes) ==
    [target_node |-> target_node, target_path |-> target_path,
     keyframes |-> keyframes]

GltfAnimation(name, channels) == [name |-> name, channels |-> channels]

\* What tinygltf hands to model_load: the nodes, the joints of skins[0]
\* (node indices; << >> when the file has no skin), the inverse bind
\* matrices of those joints and the animations.  Indices count from 0.
Gltf(nodes, joints, inverseBindMatrices, animations) ==
    [nodes |-> nodes, joints |-> joints,
     inverseBindMatrices |-> inverseBindMatrices, animations |-> animations]

\* File 1: one root joint; "Idle" moves it from 0 to 4 over 2 time units,
\* "Run" from 1 to 3 over 1.  File 2: no skin and no animation.
Assets ==
    << Gltf(<<Node("Root", << >>)>>, <<0>>, <<IdentityMat>>,
            <<GltfAnimation("Idle",
                  <<GltfChannel(0, "translation",
                                <<Keyframe(0, 0), Keyframe(2, 4)>>)>>),
              GltfAnimation("Run",
                  <<GltfChannel(0, "translation",
                                <<Keyframe(0, 1), Keyframe(1, 3)>>)>>)>>),
       Gltf(<< >>, << >>, << >>, << >>) >>

\* Keyframe times of the sampled channels: 1, 3, 5, ...; sample times run
\* from before the first of them to after the last.
KeyTimes == {2 * i - 1 : i \in 1..MaxKeyframes}
SampleTimes == 0..(2 * MaxKeyframes)

Keyframes == {Keyframe(t, v) : t \in KeyTimes, v \in 0..MaxKeyValue}

\* The keyframe sequences with strictly increasing times.
KeyframeSeqs ==
    {ks \in UNION {[1..n -> Keyframes] : n \in 0..MaxKeyframes} :
         \A i, j \in DOMAIN ks : i < j => ks[i].time < ks[j].time}

\* Files with three nodes, "Hip" the parent of "Knee" and "Prop" apart; a
\* skin of "Hip" and "Knee" that lists them in either order; and one clip
\* with one channel that moves or scales one of the nodes along keyframes.
SampleNodes == <<Node("Hip", <<1>>), Node("Knee", << >>), Node("Prop", << >>)>>

SampleSkins == {<<0, 1>>, <<1, 0>>}

\* The inverse bind matrices of the two joints.
SampleBinds == <<Mat(FInt(2), FInt(1), FInt(1)), Mat(FInt(1), FInt(0 - 1), FInt(1))>>

SampleAssets ==
    {Gltf(SampleNodes, joints, SampleBinds,
          <<GltfAnimation("Idle", <<GltfChannel(target, path, ks)>>)>>) :
         joints \in SampleSkins,
         target \in 0..(Len(SampleNodes) - 1),
         path \in {"translation", "scale"},
         ks \in KeyframeSeqs}

\* Rotation keyframe values, copied from the file as they are: unit
\* quaternions on an axis and off the axes, a quaternion of length
\* MaxQuatLen and the zero quaternion.
Quat(x, y, z, w) == <<x, y, z, w>>

SampleQuats ==
    {Quat(FInt(0), FInt(0), FInt(0), FInt(0)),
     Quat(FInt(1), FInt(0), FInt(0), FInt(0)),
     Quat(FInt(0 - 1), FInt(0), FInt(0), FInt(0)),
     Quat(FInt(0), FInt(0), FInt(0), FInt(1)),
     Quat(FInt(0), FInt(0), FInt(0), FInt(0 - 1)),
     Quat(FInt(0), FInt(0), FInt(0), FInt(MaxQuatLen)),
     Quat(FRat(1, 2), FRat(1, 2), FRat(1, 2), FRat(1, 2)),
     Quat(FRat(0 - 1, 2), FRat(0 - 1, 2), FRat(0 - 1, 2), FRat(0 - 1, 2))}

\* Interpolation factors: the two ends and the middle.
SlerpTimes == {FInt(0), FRat(1, 2), FInt(1)}

\* model_load never writes Joint::localTransform: what a loaded joint holds
\* there is whatever the memory held.  The contents the model considers.
LoaderLocals == {ZeroMat, IdentityMat, Mat(FInt(2), FInt(1), FInt(1))}

\* model_load leaves AnimationChannel::jointIndex unwritten when its search
\* finds no joint for the target node: the index is then whatever the
\* memory held.  The contents the model considers: the first joint, and an
\* index past every skeleton.
LoaderJointIndexes == {0, Len(SampleNodes)}

\* File 0 is a path tinygltf cannot load.
Files == 0..Len(Assets)

\* Clip names the host passes to animation_set / animation_blend.
Names == {"Idle", "Run", ""}

(***************************************************************************)
(* model_loader.cpp                                                        *)
(***************************************************************************)
\* The name a clip holds after std::move(clip): unspecified by the language;
\* the build leaves it empty or leaves it as it was.
MovedFrom(name) == IF movedFromName = "empty" THEN "" ELSE name

\* BuildNameToIndex storing animations.size() instead of size() - 1.
RECURSIVE BuildNameToIndex_size(_, _, _)
BuildNameToIndex_size(clips, i, map) ==
    IF i > Len(clips) THEN map
    ELSE LET key == MovedFrom(clips[i].name)
             m2 == [n \in (DOMAIN map) \cup {key} |->
                        IF n = key THEN i ELSE map[n]]
         IN BuildNameToIndex_size(clips, i + 1, m2)

\* The loop over gltfModel.animations: push_back(std::move(clip)), then
\* animationNameToIndex[clip.name] = animations.size() - 1 (indices from 0).
RECURSIVE BuildNameToIndex(_, _, _)
BuildNameToIndex(clips, i, map) ==
    IF i > Len(clips) THEN map
    ELSE LET key == MovedFrom(clips[i].name)
             m2 == [n \in (DOMAIN map) \cup {key} |->
                        IF n = key THEN i - 1 ELSE map[n]]
         IN BuildNameToIndex(clips, i + 1, m2)

EmptyMap == [n \in {} |-> 0]

\* The search for the parent of the joint built from node jointNode: every
\* i whose node lists jointNode as a child assigns parentIndex = i, the
\* last such i stands; -1 (the member's default) when there is none.
ParentIndexOf(gltf, jointNode) ==
    LET hits == {i \in 0..(Len(gltf.joints) - 1) :
                     \E c \in DOMAIN gltf.nodes[gltf.joints[i + 1] + 1].children :
                         gltf.nodes[gltf.joints[i + 1] + 1].children[c] = jointNode}
    IN IF hits = {} THEN 0 - 1
       ELSE CHOOSE h \in hits : \A g \in hits : g <= h

\* The skeleton model_load builds from skins[0]: one Joint per entry of
\* skin.joints, in that order, local being what localTransform is left with.
BuildJoints(gltf, local) ==
    [j \in 1..Len(gltf.joints) |->
         [name |-> gltf.nodes[gltf.joints[j] + 1].name,
          parentIndex |-> ParentIndexOf(gltf, gltf.joints[j]),
          inverseBindMatrix |-> gltf.inverseBindMatrices[j],
          localTransform |-> local]]

\* The search for the joint of a channel: the first i with
\* i == targetNode or joints[i].name == nodes[targetNode].name; when there
\* is none jointIndex stays what it was, unset.
JointIndexOf(gltf, joints, targetNode, unset) ==
    LET hits == {i \in 0..(Len(joints) - 1) :
                     \/ i = targetNode
                     \/ joints[i + 1].name = gltf.nodes[targetNode + 1].name}
    IN IF hits = {} THEN unset
       ELSE CHOOSE h \in hits : \A g \in hits : h <= g

BuildChannel(gltf, joints, channel, unset) ==
    Channel(JointIndexOf(gltf, joints, channel.target_node, unset),
            IF channel.target_path = "translation" THEN "Translation"
            ELSE "Scale",
            channel.keyframes)

BuildClips(gltf, joints, unset) ==
    [a \in 1..Len(gltf.animations) |->
         Clip(gltf.animations[a].name,
              [c \in 1..Len(gltf.animations[a].channels) |->
                   BuildChannel(gltf, joints, gltf.animations[a].channels[c],
                                unset)])]

\* The Model built by model_load from what a readable file holds, local
\* being what the joints' localTransform is left with and unset what an
\* unwritten jointIndex is left with.
ModelFrom(gltf, local, unset) ==
    LET joints == BuildJoints(gltf, local)
        clips == BuildClips(gltf, joints, unset)
    IN [skeleton |-> [joints |-> joints],
        boneMatrices |-> [j \in 1..Len(joints) |-> IdentityMat],
        animations |-> clips,
        animationNameToIndex |-> BuildNameToIndex(clips, 1, EmptyMap),
        currentAnimation |-> 0,
        animationTime |-> 0,
        animationLooping |-> TRUE]

NewModel(file, local, unset) == ModelFrom(Assets[file], local, unset)

model_get(models, modelId) == modelId \in DOMAIN models

\* model_load: 0 on failure, else the model is stored under the next id.
model_load_result(models, nextId, file, local, unset) ==
    IF file = 0 THEN [models |-> models, nextId |-> nextId]
    ELSE [models |-> [i \in (DOMAIN models) \cup {nextId} |->
                          IF i = nextId THEN NewModel(file, local, unset)
                          ELSE models[i]],
          nextId |-> nextId + 1]

model_unload_result(models, modelId) ==
    IF ~model_get(models, modelId) THEN models
    ELSE [i \in (DOMAIN models) \ {modelId} |-> models[i]]

\* The clock update of one model in model_draw_all.
DrawModel(model, dt) ==
    IF model.animations # << >> /\ model.currentAnimation < Len(model.animations)
    THEN LET clip == model.animations[model.currentAnimation + 1]
             t == model.animationTime + dt
         IN IF model.animationLooping /\ t > clip.duration
            THEN [model EXCEPT !.animationTime = t % clip.duration]
            ELSE [model EXCEPT !.animationTime = t]
    ELSE model

model_draw_all(models, dt) == [i \in DOMAIN models |-> DrawModel(models[i], dt)]

(***************************************************************************)
(* animation_system.cpp                                                    *)
(***************************************************************************)
NewBlendState ==
    [modelId |-> 0, fromAnimation |-> 0, toAnimation |-> 0, blendTime |-> 0,
     blendProgress |-> FInt(0), active |-> FALSE]

State(models, blends) == [models |-> models, blends |-> blends]

\* animation_set without the reset of animationTime.
animation_set_keeps_time(models, blends, modelId, animName, loop) ==
    IF ~model_get(models, modelId) THEN State(models, blends)
    ELSE IF animName \notin DOMAIN models[modelId].animationNameToIndex
    THEN State(models, blends)
    ELSE State([models EXCEPT
                   ![modelId].currentAnimation =
                       models[modelId].animationNameToIndex[animName],
                   ![modelId].animationLooping = loop],
               blends)

animation_set(models, blends, modelId, animName, loop) ==
    IF ~model_get(models, modelId) THEN State(models, blends)
    ELSE IF animName \notin DOMAIN models[modelId].animationNameToIndex
    THEN State(models, blends)
    ELSE State([models EXCEPT
                   ![modelId].currentAnimation =
                       models[modelId].animationNameToIndex[animName],
                   ![modelId].animationTime = 0,
                   ![modelId].animationLooping = loop],
               blends)

\* Index of the first blend state of modelId in the vector, 0 if none.
FindBlend(blends, modelId) ==
    IF \E i \in 1..Len(blends) : blends[i].modelId = modelId
    THEN CHOOSE i \in 1..Len(blends) :
             /\ blends[i].modelId = modelId
             /\ \A j \in 1..(i - 1) : blends[j].modelId # modelId
    ELSE 0

\* animation_stop without the removal of the model's blend states.
animation_stop_keeps_blend(models, blends, modelId) ==
    IF ~model_get(models, modelId) THEN State(models, blends)
    ELSE State([models EXCEPT ![modelId].animationTime = 0], blends)

\* animation_stop clearing the whole blend-state vector.
animation_stop_clears_all(models, blends, modelId) ==
    IF ~model_get(models, modelId) THEN State(models, blends)
    ELSE State([models EXCEPT ![modelId].animationTime = 0], << >>)

\* animation_blend setting the loop flag before it looks the name up.
animation_blend_loop_first(models, blends, modelId, animName, blendTime, loop) ==
    IF ~model_get(models, modelId) THEN State(models, blends)
    ELSE IF animName \notin DOMAIN models[modelId].animationNameToIndex
    THEN State([models EXCEPT ![modelId].animationLooping = loop], blends)
    ELSE LET found == FindBlend(blends, modelId)
             bs == IF found = 0 THEN Append(blends, NewBlendState) ELSE blends
             at == IF found = 0 THEN Len(bs) ELSE found
             st == [modelId |-> modelId,
                    fromAnimation |-> models[modelId].currentAnimation,
                    toAnimation |-> models[modelId].animationNameToIndex[animName],
                    blendTime |-> blendTime,
                    blendProgress |-> FInt(0),
                    active |-> TRUE]
         IN State([models EXCEPT ![modelId].animationLooping = loop],
                  [bs EXCEPT ![at] = st])

\* animation_blend keeping the progress of the blend state it updates.
animation_blend_keeps_progress(models, blends, modelId, animName, blendTime, loop) ==
    IF ~model_get(models, modelId) THEN State(models, blends)
    ELSE IF animName \notin DOMAIN models[modelId].animationNameToIndex
    THEN State(models, blends)
    ELSE LET found == FindBlend(blends, modelId)
             bs == IF found = 0 THEN Append(blends, NewBlendState) ELSE blends
             at == IF found = 0 THEN Len(bs) ELSE found
             st == [modelId |-> modelId,
                    fromAnimation |-> models[modelId].currentAnimation,
                    toAnimation |-> models[modelId].animationNameToIndex[animName],
                    blendTime |-> blendTime,
                    blendProgress |-> bs[at].blendProgress,
                    active |-> TRUE]
         IN State([models EXCEPT ![modelId].animationLooping = loop],
                  [bs EXCEPT ![at] = st])

\* animation_blend starting from the target of the blend state it updates.
animation_blend_chained(models, blends, modelId, animName, blendTime, loop) ==
    IF ~model_get(models, modelId) THEN State(models, blends)
    ELSE IF animName \notin DOMAIN models[modelId].animationNameToIndex
    THEN State(models, blends)
    ELSE LET found == FindBlend(blends, modelId)
             bs == IF found = 0 THEN Append(blends, NewBlendState) ELSE blends
             at == IF found = 0 THEN Len(bs) ELSE found
             st == [modelId |-> modelId,
                    fromAnimation |-> IF found = 0
                                      THEN models[modelId].currentAnimation
                                      ELSE blends[found].toAnimation,
                    toAnimation |-> models[modelId].animationNameToIndex[animName],
                    blendTime |-> blendTime,
                    blendProgress |-> FInt(0),
                    active |-> TRUE]
         IN State([models EXCEPT ![modelId].animationLooping = loop],
                  [bs EXCEPT ![at] = st])

\* animation_blend without the scan for the model's blend state.
animation_blend_always_push(models, blends, modelId, animName, blendTime, loop) ==
    IF ~model_get(models, modelId) THEN State(models, blends)
    ELSE IF animName \notin DOMAIN models[modelId].animationNameToIndex
    THEN State(models, blends)
    ELSE LET st == [modelId |-> modelId,
                    fromAnimation |-> models[modelId].currentAnimation,
                    toAnimation |-> models[modelId].animationNameToIndex[animName],
                    blendTime |-> blendTime,
                    blendProgress |-> FInt(0),
                    active |-> TRUE]
         IN State([models EXCEPT ![modelId].animationLooping = loop],
                  Append(blends, st))

animation_blend(models, blends, modelId, animName, blendTime, loop) ==
    IF ~model_get(models, modelId) THEN State(models, blends)
    ELSE IF animName \notin DOMAIN models[modelId].animationNameToIndex
    THEN State(models, blends)
    ELSE LET found == FindBlend(blends, modelId)
             bs == IF found = 0 THEN Append(blends, NewBlendState) ELSE blends
             at == IF found = 0 THEN Len(bs) ELSE found
             st == [modelId |-> modelId,
                    fromAnimation |-> models[modelId].currentAnimation,
                    toAnimation |-> models[modelId].animationNameToIndex[animName],
                    blendTime |-> blendTime,
                    blendProgress |-> FInt(0),
                    active |-> TRUE]
         IN State([models EXCEPT ![modelId].animationLooping = loop],
                  [bs EXCEPT ![at] = st])

animation_stop(models, blends, modelId) ==
    IF ~model_get(models, modelId) THEN State(models, blends)
    ELSE State([models EXCEPT ![modelId].animationTime = 0],
               SelectSeq(blends, LAMBDA s : s.modelId # modelId))

\* UpdateBlend without the reset of animationTime on completion.
UpdateBlend_keeps_time(models, state, dt) ==
    IF ~state.active THEN [models |-> models, state |-> state]
    ELSE IF ~model_get(models, state.modelId)
    THEN [models |-> models, state |-> [state EXCEPT !.active = FALSE]]
    ELSE LET p == FAdd(state.blendProgress, FDiv(dt, state.blendTime))
         IN IF FGe(p, FInt(1))
            THEN [models |-> [models EXCEPT
                                 ![state.modelId].currentAnimation = state.toAnimation],
                  state |-> [state EXCEPT !.blendProgress = p, !.active = FALSE]]
            ELSE [models |-> models,
                  state |-> [state EXCEPT !.blendProgress = p]]

\* UpdateBlend completing only when blendProgress > 1.
UpdateBlend_strict(models, state, dt) ==
    IF ~state.active THEN [models |-> models, state |-> state]
    ELSE IF ~model_get(models, state.modelId)
    THEN [models |-> models, state |-> [state EXCEPT !.active = FALSE]]
    ELSE LET p == FAdd(state.blendProgress, FDiv(dt, state.blendTime))
         IN IF FGe(p, FInt(1)) /\ p # FInt(1)
            THEN [models |-> [models EXCEPT
                                 ![state.modelId].currentAnimation = state.toAnimation,
                                 ![state.modelId].animationTime = 0],
                  state |-> [state EXCEPT !.blendProgress = p, !.active = FALSE]]
            ELSE [models |-> models,
                  state |-> [state EXCEPT !.blendProgress = p]]

\* UpdateBlend skipping the blend state of a missing model.
UpdateBlend_keeps_orphan(models, state, dt) ==
    IF ~state.active THEN [models |-> models, state |-> state]
    ELSE IF ~model_get(models, state.modelId)
    THEN [models |-> models, state |-> state]
    ELSE LET p == FAdd(state.blendProgress, FDiv(dt, state.blendTime))
         IN IF FGe(p, FInt(1))
            THEN [models |-> [models EXCEPT
                                 ![state.modelId].currentAnimation = state.toAnimation,
                                 ![state.modelId].animationTime = 0],
                  state |-> [state EXCEPT !.blendProgress = p, !.active = FALSE]]
            ELSE [models |-> models,
                  state |-> [state EXCEPT !.blendProgress = p]]

\* UpdateBlend assigning dt / blendTime to blendProgress instead of adding it.
UpdateBlend_assigns(models, state, dt) ==
    IF ~state.active THEN [models |-> models, state |-> state]
    ELSE IF ~model_get(models, state.modelId)
    THEN [models |-> models, state |-> [state EXCEPT !.active = FALSE]]
    ELSE LET p == FDiv(dt, state.blendTime)
         IN IF FGe(p, FInt(1))
            THEN [models |-> [models EXCEPT
                                 ![state.modelId].currentAnimation = state.toAnimation,
                                 ![state.modelId].animationTime = 0],
                  state |-> [state EXCEPT !.blendProgress = p, !.active = FALSE]]
            ELSE [models |-> models,
                  state |-> [state EXCEPT !.blendProgress = p]]

\* One iteration of the loop over g_blendStates in animation_update.
UpdateBlend(models, state, dt) ==
    IF ~state.active THEN [models |-> models, state |-> state]
    ELSE IF ~model_get(models, state.modelId)
    THEN [models |-> models, state |-> [state EXCEPT !.active = FALSE]]
    ELSE LET p == FAdd(state.blendProgress, FDiv(dt, state.blendTime))
         IN IF FGe(p, FInt(1))
            THEN [models |-> [models EXCEPT
                                 ![state.modelId].currentAnimation = state.toAnimation,
                                 ![state.modelId].animationTime = 0],
                  state |-> [state EXCEPT !.blendProgress = p, !.active = FALSE]]
            ELSE [models |-> models,
                  state |-> [state EXCEPT !.blendProgress = p]]

RECURSIVE UpdateFrom(_, _, _, _)
UpdateFrom(models, blends, i, dt) ==
    IF i > Len(blends) THEN State(models, blends)
    ELSE LET r == UpdateBlend(models, blends[i], dt)
         IN UpdateFrom(r.models, [blends EXCEPT ![i] = r.state], i + 1, dt)

animation_update(models, blends, dt) ==
    LET r == UpdateFrom(models, blends, 1, dt)
    IN State(r.models, SelectSeq(r.blends, LAMBDA s : s.active))

\* lerp(a, b, t) = a + (b - a) * t
lerp(a, b, t) == FAdd(a, FMul(FSub(b, a), t))

\* q1[0]*q2[0] + q1[1]*q2[1] + q1[2]*q2[2] + q1[3]*q2[3]
Dot(q1, q2) ==
    FAdd(FAdd(FMul(q1[1], q2[1]), FMul(q1[2], q2[2])),
         FAdd(FMul(q1[3], q2[3]), FMul(q1[4], q2[4])))

\* std::sin(s * theta) / std::sin(theta) for theta = std::acos(dot) with
\* 0 <= dot <= 0.9995, at the two s where the quotient is exact:
\* sin(0) / sin(theta) = 0 and sin(theta) / sin(theta) = 1.
SinRatio(dot, s) == IF s = FInt(0) THEN FInt(0) ELSE FInt(1)

\* The threshold of the linear branch: dot > 0.9995f.
VeryClose(dot) == FLt(FRat(9995, 10000), dot)

\* slerp up to its last step: out before it is normalized.
Interpolated(q1, q2, t) ==
    LET negative == FLt(Dot(q1, q2), FInt(0))
        dot == IF negative THEN FNeg(Dot(q1, q2)) ELSE Dot(q1, q2)
        q2n == [i \in 1..4 |-> IF negative THEN FNeg(q2[i]) ELSE q2[i]]
    IN IF VeryClose(dot)
       THEN [i \in 1..4 |-> lerp(q1[i], q2n[i], t)]
       ELSE LET w1 == SinRatio(dot, FSub(FInt(1), t))
                w2 == SinRatio(dot, t)
            IN [i \in 1..4 |-> FAdd(FMul(q1[i], w1), FMul(q2n[i], w2))]

slerp(q1, q2, t) ==
    LET out == Interpolated(q1, q2, t)
        len == FSqrt(Dot(out, out))
    IN IF FLt(FInt(0), len) THEN [i \in 1..4 |-> FQuot(out[i], len)] ELSE out

\* FindKeys looking for keyframes[i].time < time < keyframes[i + 1].time.
FindKeys_open(keyframes, time) ==
    LET hits == {i \in 0..(Len(keyframes) - 2) :
                     /\ time > keyframes[i + 1].time
                     /\ time < keyframes[i + 2].time}
    IN IF hits # {}
       THEN LET i == CHOOSE h \in hits : \A g \in hits : h <= g
            IN [k0 |-> i, k1 |-> i + 1]
       ELSE [k0 |-> Len(keyframes) - 1, k1 |-> Len(keyframes) - 1]

\* The search for the surrounding keyframes in animation_sample: the first
\* i with keyframes[i].time <= time < keyframes[i + 1].time gives
\* (k0, k1) = (i, i + 1); when there is none (k1 still 0) both are the last
\* keyframe.  Indices count from 0 as in the code.
FindKeys(keyframes, time) ==
    LET hits == {i \in 0..(Len(keyframes) - 2) :
                     /\ time >= keyframes[i + 1].time
                     /\ time < keyframes[i + 2].time}
    IN IF hits # {}
       THEN LET i == CHOOSE h \in hits : \A g \in hits : h <= g
            IN [k0 |-> i, k1 |-> i + 1]
       ELSE [k0 |-> Len(keyframes) - 1, k1 |-> Len(keyframes) - 1]

\* The value animation_sample interpolates for a channel with keyframes.
SampleValue(keyframes, time) ==
    LET ks == FindKeys(keyframes, time)
        key0 == keyframes[ks.k0 + 1]
        key1 == keyframes[ks.k1 + 1]
        t == IF ks.k0 # ks.k1
             THEN FDiv(time - key0.time, key1.time - key0.time)
             ELSE FInt(0)
    IN lerp(FInt(key0.value), FInt(key1.value), t)

\* SampleChannel with a translation channel resetting the scale entry.
SampleChannel_resets_scale(joints, channel, time) ==
    IF channel.keyframes = << >> THEN joints
    ELSE IF channel.jointIndex >= Len(joints) THEN joints
    ELSE LET j == channel.jointIndex + 1
             v == SampleValue(channel.keyframes, time)
         IN IF channel.property = "Translation"
            THEN [joints EXCEPT ![j].localTransform.m12 = v,
                                ![j].localTransform.m0 = FInt(1)]
            ELSE [joints EXCEPT ![j].localTransform.m0 =
                                    FMul(joints[j].localTransform.m0, v)]

\* The body of animation_sample's loop for one channel.
SampleChannel(joints, channel, time) ==
    IF channel.keyframes = << >> THEN joints
    ELSE IF channel.jointIndex >= Len(joints) THEN joints
    ELSE LET j == channel.jointIndex + 1
             v == SampleValue(channel.keyframes, time)
         IN IF channel.property = "Translation"
            THEN [joints EXCEPT ![j].localTransform.m12 = v]
            ELSE [joints EXCEPT ![j].localTransform.m0 =
                                    FMul(joints[j].localTransform.m0, v)]

RECURSIVE SampleFrom(_, _, _, _)
SampleFrom(joints, channels, c, time) ==
    IF c > Len(channels) THEN joints
    ELSE SampleFrom(SampleChannel(joints, channels[c], time), channels, c + 1, time)

animation_sample(model, time) ==
    IF model.animations = << >> THEN model
    ELSE IF model.currentAnimation >= Len(model.animations) THEN model
    ELSE [model EXCEPT !.skeleton.joints =
              SampleFrom(model.skeleton.joints,
                         model.animations[model.currentAnimation + 1].channels,
                         1, time)]

\* GlobalsFrom taking every joint's local transform for its global one.
GlobalsFrom_roots(joints, i, globalTransforms) ==
    [j \in 1..Len(joints) |-> joints[j].localTransform]

\* The first loop of animation_compute_bone_matrices: the global transform
\* of joint i from that of its parent, read from globalTransforms as
\* filled so far.
RECURSIVE GlobalsFrom(_, _, _)
GlobalsFrom(joints, i, globalTransforms) ==
    IF i > Len(joints) THEN globalTransforms
    ELSE LET global ==
                 IF joints[i].parentIndex < 0 THEN joints[i].localTransform
                 ELSE mat4_multiply(globalTransforms[joints[i].parentIndex + 1],
                                    joints[i].localTransform)
         IN GlobalsFrom(joints, i + 1, [globalTransforms EXCEPT ![i] = global])

animation_compute_bone_matrices(model) ==
    IF model.skeleton.joints = << >> THEN model
    ELSE LET joints == model.skeleton.joints
             globalTransforms ==
                 GlobalsFrom(joints, 1, [i \in 1..Len(joints) |-> ZeroMat])
         IN [model EXCEPT !.boneMatrices =
                 [i \in 1..Len(joints) |->
                      mat4_multiply(globalTransforms[i],
                                    joints[i].inverseBindMatrix)]]

\* The test both queries make before they read the current clip:
\* !animations.empty() && currentAnimation < animations.size().
HasAnimation(model) ==
    model.animations # << >> /\ model.currentAnimation < Len(model.animations)

CurrentClip(model) == model.animations[model.currentAnimation + 1]

animation_get_progress(models, modelId) ==
    IF ~model_get(models, modelId) THEN FInt(0 - 1)
    ELSE IF models[modelId].animations = << >> THEN FInt(0 - 1)
    ELSE IF models[modelId].currentAnimation >= Len(models[modelId].animations)
    THEN FInt(0 - 1)
    ELSE IF CurrentClip(models[modelId]).duration <= 0 THEN FInt(0)
    ELSE FDiv(models[modelId].animationTime, CurrentClip(models[modelId]).duration)

\* animation_is_finished comparing with > instead of >=.
animation_is_finished_strict(models, modelId) ==
    IF ~model_get(models, modelId) THEN TRUE
    ELSE IF models[modelId].animations = << >> THEN TRUE
    ELSE IF models[modelId].currentAnimation >= Len(models[modelId].animations)
    THEN TRUE
    ELSE IF models[modelId].animationLooping THEN FALSE
    ELSE models[modelId].animationTime > CurrentClip(models[modelId]).duration

animation_is_finished(models, modelId) ==
    IF ~model_get(models, modelId) THEN TRUE
    ELSE IF models[modelId].animations = << >> THEN TRUE
    ELSE IF models[modelId].currentAnimation >= Len(models[modelId].animations)
    THEN TRUE
    ELSE IF models[modelId].animationLooping THEN FALSE
    ELSE models[modelId].animationTime >= CurrentClip(models[modelId]).duration

(***************************************************************************)
(* gods_engine.cpp                                                         *)
(***************************************************************************)
\* gods_render_frame with the two calls in the other order:
\* model_draw_all(dt), then animation_update(dt).
gods_render_frame_result_draws_first(models, blends, dt) ==
    animation_update(model_draw_all(models, dt), blends, dt)

\* gods_render_frame: animation_update(dt), then model_draw_all(dt).
gods_render_frame_result(models, blends, dt) ==
    CHOOSE r \in {State(model_draw_all(u.models, dt), u.blends) :
                      u \in {animation_update(models, blends, dt)}} : TRUE

\* The frame keeps every clock and every blend progress inside the bounds.
FrameInBounds(st) ==
    /\ \A i \in DOMAIN st.models : st.models[i].animationTime <= MaxTime
    /\ \A j \in 1..Len(st.blends) :
           LET p == st.blends[j].blendProgress
           IN p.k = "fin" => FGe(p, FInt(0 - MaxLag))

(***************************************************************************)
(* History variables.  last names the last call: its operation, the model  *)
(* it was called for (0 when model_get finds none under the identifier;    *)
(* for a frame, the identifier of the first blend state whose model is     *)
(* gone, 0 when there is none),                                            *)
(* whether it found what it looked up (the model,                          *)
(* the clip name, the file, an initialized renderer), whether a blend      *)
(* state existed before it (of that model; of any model for a frame) and,  *)
(* when it found what it looked up, its other arguments (<< >> otherwise). *)
(* watch follows the most recent accepted blend request with blendTime > 0 *)
(* to a clip other than the current one: its model, clips, blendTime and   *)
(* loop flag and the sum of the dt of the frames run since, counted up to  *)
(* blendTime; it                                                           *)
(* is dropped by the next command that acts on that model.  An accepted    *)
(* stop is followed the same way, as a request that is over at once: its   *)
(* model, the clip that was current for both clips, and blendTime 0.       *)
(***************************************************************************)
Last(op, modelId, found, hadBlend, args) ==
    [op |-> op, modelId |-> modelId, found |-> found, hadBlend |-> hadBlend,
     args |-> IF found THEN args ELSE << >>]

NoWatch ==
    [modelId |-> 0, fromAnimation |-> 0, toAnimation |-> 0, blendTime |-> 0,
     elapsed |-> 0, loop |-> FALSE]

Min(a, b) == IF a < b THEN a ELSE b

\* A host thread outside animation_blend.  Inside, pc is the statement it
\* is about to run and the other fields are the call's arguments and
\* locals: state is the position in g_blendStates its BlendState* points
\* to (0 for nullptr), stale whether a push_back has run since it took
\* the pointer (the vector may have moved its storage).
IdleThread ==
    [pc |-> "idle", modelId |-> 0, toAnimation |-> 0, blendTime |-> 0,
     loop |-> FALSE, state |-> 0, stale |-> FALSE]

\* The identifier if a model is loaded under it, else 0.
ModelOf(modelId) == IF model_get(g_models, modelId) THEN modelId ELSE 0

KnownClip(modelId, animName) ==
    /\ model_get(g_models, modelId)
    /\ animName \in DOMAIN g_models[modelId].animationNameToIndex

HasBlend(blends, modelId) == \E i \in 1..Len(blends) : blends[i].modelId = modelId

\* The identifier in the first blend state whose model is not loaded, else 0.
OrphanOf(blends) ==
    IF \E i \in 1..Len(blends) : ~model_get(g_models, blends[i].modelId)
    THEN blends[CHOOSE i \in 1..Len(blends) :
                    /\ ~model_get(g_models, blends[i].modelId)
                    /\ \A j \in 1..(i - 1) : model_get(g_models, blends[j].modelId)
               ].modelId
    ELSE 0

\* A command acted on modelId: the watched request, if of that model, is over.
Unwatch(modelId) == IF watch.modelId = modelId THEN NoWatch ELSE watch

Init ==
    /\ g_models = [i \in {} |-> 0]
    /\ g_nextModelId = 1
    /\ g_blendStates = << >>
    /\ g_rendererInitialized = FALSE
    /\ movedFromName \in {"empty", "kept"}
    /\ last = Last("init", 0, TRUE, FALSE, << >>)
    /\ watch = NoWatch
    /\ threads = [t \in Threads |-> IdleThread]

gods_render_init(bgfxOk) ==
    /\ g_rendererInitialized' = (g_rendererInitialized \/ bgfxOk)
    /\ last' = Last("render_init", 0, g_rendererInitialized', FALSE, << >>)
    /\ UNCHANGED <<threads, g_models, g_nextModelId, g_blendStates, movedFromName, watch>>

gods_model_load(file, local, unset, maxId) ==
    /\ g_nextModelId <= maxId
    /\ LET r == model_load_result(g_models, g_nextModelId, file, local, unset)
       IN /\ g_models' = r.models
          /\ g_nextModelId' = r.nextId
    /\ last' = Last("load", IF file = 0 THEN 0 ELSE g_nextModelId, file # 0, FALSE,
                    <<file>>)
    /\ UNCHANGED <<threads, g_blendStates, g_rendererInitialized, movedFromName, watch>>

gods_model_unload(modelId) ==
    /\ g_models' = model_unload_result(g_models, modelId)
    /\ last' = Last("unload", ModelOf(modelId), model_get(g_models, modelId),
                    HasBlend(g_blendStates, ModelOf(modelId)), << >>)
    /\ watch' = IF model_get(g_models, modelId) THEN Unwatch(modelId) ELSE watch
    /\ UNCHANGED <<threads, g_nextModelId, g_blendStates, g_rendererInitialized, movedFromName>>

gods_anim_set(modelId, animName, loop) ==
    /\ LET r == animation_set(g_models, g_blendStates, modelId, animName, loop)
       IN /\ g_models' = r.models
          /\ g_blendStates' = r.blends
    /\ last' = Last("set", ModelOf(modelId), KnownClip(modelId, animName),
                    HasBlend(g_blendStates, ModelOf(modelId)), <<animName, loop>>)
    /\ watch' = IF KnownClip(modelId, animName) THEN Unwatch(modelId) ELSE watch
    /\ UNCHANGED <<threads, g_nextModelId, g_rendererInitialized, movedFromName>>

gods_anim_blend(modelId, animName, blendTime, loop) ==
    /\ LET r == animation_blend(g_models, g_blendStates, modelId, animName,
                                blendTime, loop)
       IN /\ g_models' = r.models
          /\ g_blendStates' = r.blends
    /\ last' = Last("blend", ModelOf(modelId), KnownClip(modelId, animName),
                    HasBlend(g_blendStates, ModelOf(modelId)), <<animName, blendTime, loop>>)
    /\ watch' =
           IF ~KnownClip(modelId, animName) THEN watch
           ELSE LET to == g_models[modelId].animationNameToIndex[animName]
                IN IF blendTime > 0 /\ to # g_models[modelId].currentAnimation
                   THEN [modelId |-> modelId,
                         fromAnimation |-> g_models[modelId].currentAnimation,
                         toAnimation |-> to,
                         blendTime |-> blendTime, elapsed |-> 0,
                         loop |-> loop]
                   ELSE Unwatch(modelId)
    /\ UNCHANGED <<threads, g_nextModelId, g_rendererInitialized, movedFromName>>

gods_anim_stop(modelId) ==
    /\ LET r == animation_stop(g_models, g_blendStates, modelId)
       IN /\ g_models' = r.models
          /\ g_blendStates' = r.blends
    /\ last' = Last("stop", ModelOf(modelId), model_get(g_models, modelId),
                    HasBlend(g_blendStates, ModelOf(modelId)), << >>)
    /\ watch' = IF model_get(g_models, modelId)
                THEN [modelId |-> modelId,
                      fromAnimation |-> g_models[modelId].currentAnimation,
                      toAnimation |-> g_models[modelId].currentAnimation,
                      blendTime |-> 0, elapsed |-> 0,
                      loop |-> g_models[modelId].animationLooping]
                ELSE watch
    /\ UNCHANGED <<threads, g_nextModelId, g_rendererInitialized, movedFromName>>

gods_render_frame(dt) ==
    /\ last' = Last("frame", OrphanOf(g_blendStates), g_rendererInitialized,
                    g_blendStates # << >>, <<dt>>)
    /\ \E r \in {IF g_rendererInitialized
                  THEN gods_render_frame_result(g_models, g_blendStates, dt)
                  ELSE State(g_models, g_blendStates)} :
           /\ FrameInBounds(r)
           /\ g_models' = r.models
           /\ g_blendStates' = r.blends
    /\ watch' = IF g_rendererInitialized /\ watch # NoWatch
                THEN [watch EXCEPT !.elapsed = Min(watch.elapsed + dt, watch.blendTime)]
                ELSE watch
    /\ UNCHANGED <<threads, g_nextModelId, g_rendererInitialized, movedFromName>>

\* The host's calls: at most maxId models are ever loaded, their joints'
\* localTransform left with one of locals, blends are requested with a
\* blendTime of blendTimes and frames run with a dt of dts.
Calls(maxId, locals, blendTimes, dts) ==
    \/ \E ok \in BOOLEAN : gods_render_init(ok)
    \/ \E f \in Files, local \in locals, unset \in LoaderJointIndexes :
           gods_model_load(f, local, unset, maxId)
    \/ \E m \in ModelIds : gods_model_unload(m)
    \/ \E m \in ModelIds, n \in Names, l \in BOOLEAN : gods_anim_set(m, n, l)
    \/ \E m \in ModelIds, n \in Names, b \in blendTimes, l \in BOOLEAN :
           gods_anim_blend(m, n, b, l)
    \/ \E m \in ModelIds : gods_anim_stop(m)
    \/ \E dt \in dts : gods_render_frame(dt)

\* A session in which the host loads one model; the other identifiers of
\* ModelIds stay unknown.
Next == Calls(1, LoaderLocals, BlendTimes, Dts)

Spec == Init /\ [][Next]_vars

\* A session in which the host loads two models, their memory zeroed,
\* blends over MaxBlendTime and runs frames of one time unit.
NextMulti == Calls(2, {ZeroMat}, {MaxBlendTime}, {1})

SpecMulti == Init /\ [][NextMulti]_vars

(***************************************************************************)
(* A session whose frames keep coming.  The host loads one model and       *)
(* addresses the models it has loaded: it plays looping clips, requests    *)
(* blends with blendTime > 0 and leaves a model with a pending blend alone *)
(* but for animation_set: it issues no blend, stop or unload for it.  Once *)
(* the renderer is initialized, frames with dt >= 1 keep running.          *)
(***************************************************************************)
Tick == g_rendererInitialized /\ \E dt \in 1..MaxDt : gods_render_frame(dt)

NextLive ==
    \/ \E ok \in BOOLEAN : gods_render_init(ok)
    \/ \E f \in Files, unset \in LoaderJointIndexes :
           gods_model_load(f, ZeroMat, unset, 1)
    \/ \E m \in DOMAIN g_models :
           ~HasBlend(g_blendStates, m) /\ gods_model_unload(m)
    \/ \E m \in DOMAIN g_models, n \in Names : gods_anim_set(m, n, TRUE)
    \/ \E m \in DOMAIN g_models, n \in Names, b \in 1..MaxBlendTime :
           ~HasBlend(g_blendStates, m) /\ gods_anim_blend(m, n, b, TRUE)
    \/ \E m \in DOMAIN g_models :
           ~HasBlend(g_blendStates, m) /\ gods_anim_stop(m)
    \/ \E dt \in Dts : gods_render_frame(dt)

SpecLive == Init /\ [][NextLive]_vars /\ WF_vars(Tick)

(***************************************************************************)
(* Host threads calling animation_blend at the same time.  The function    *)
(* takes no lock: each thread runs it statement by statement, the          *)
(* statements of the threads interleaving on g_blendStates.                *)
(***************************************************************************)
\* model_get and the lookup of the clip name; a call that finds neither
\* returns at once.
blend_enter(t, modelId, animName, blendTime, loop) ==
    /\ threads[t].pc = "idle"
    /\ KnownClip(modelId, animName)
    /\ threads' = [threads EXCEPT ![t] =
                       [pc |-> "scan", modelId |-> modelId,
                        toAnimation |->
                            g_models[modelId].animationNameToIndex[animName],
                        blendTime |-> blendTime, loop |-> loop,
                        state |-> 0, stale |-> FALSE]]
    /\ UNCHANGED <<g_models, g_nextModelId, g_blendStates,
                   g_rendererInitialized, movedFromName, last, watch>>

\* for (auto& s : g_blendStates) if (s.modelId == modelId) { state = &s; break; }
blend_scan(t) ==
    /\ threads[t].pc = "scan"
    /\ LET found == FindBlend(g_blendStates, threads[t].modelId)
       IN threads' = [threads EXCEPT
                         ![t].state = found,
                         ![t].pc = IF found = 0 THEN "push" ELSE "write"]
    /\ UNCHANGED <<g_models, g_nextModelId, g_blendStates,
                   g_rendererInitialized, movedFromName, last, watch>>

\* g_blendStates.push_back({}); state = &g_blendStates.back();  The
\* pointers the other threads hold may no longer point into the vector.
blend_push(t) ==
    /\ threads[t].pc = "push"
    /\ Len(g_blendStates) < MaxBlendStates
    /\ g_blendStates' = Append(g_blendStates, NewBlendState)
    /\ threads' = [u \in Threads |->
                       IF u = t
                       THEN [threads[u] EXCEPT
                                !.state = Len(g_blendStates) + 1,
                                !.pc = "write"]
                       ELSE IF threads[u].pc = "write"
                       THEN [threads[u] EXCEPT !.stale = TRUE]
                       ELSE threads[u]]
    /\ UNCHANGED <<g_models, g_nextModelId, g_rendererInitialized,
                   movedFromName, last, watch>>

\* The assignments through state, then model->animationLooping = loop.
\* Through a pointer taken before a push_back the assignments reach the
\* element (the storage was not moved) or freed storage (it was moved).
blend_write(t) ==
    /\ threads[t].pc = "write"
    /\ LET th == threads[t]
           st == [modelId |-> th.modelId,
                  fromAnimation |-> g_models[th.modelId].currentAnimation,
                  toAnimation |-> th.toAnimation,
                  blendTime |-> th.blendTime,
                  blendProgress |-> FInt(0),
                  active |-> TRUE]
       IN \E moved \in {FALSE, th.stale} :
              g_blendStates' = IF moved THEN g_blendStates
                               ELSE [g_blendStates EXCEPT ![th.state] = st]
    /\ g_models' = [g_models EXCEPT
                       ![threads[t].modelId].animationLooping = threads[t].loop]
    /\ threads' = [threads EXCEPT ![t] = IdleThread]
    /\ UNCHANGED <<g_nextModelId, g_rendererInitialized, movedFromName,
                   last, watch>>

NextThreads ==
    \/ \E f \in Files, unset \in LoaderJointIndexes :
           gods_model_load(f, ZeroMat, unset, 1)
    \/ \E t \in Threads, m \in ModelIds, n \in Names, l \in BOOLEAN :
           blend_enter(t, m, n, MaxBlendTime, l)
    \/ \E t \in Threads : blend_scan(t)
    \/ \E t \in Threads : blend_push(t)
    \/ \E t \in Threads : blend_write(t)

SpecThreads == Init /\ [][NextThreads]_vars

(***************************************************************************)
(* The rotation case of animation_sample: slerp of two keyframe values,    *)
(* where the model computes what the floats do: the trigonometric branch   *)
(* at t = 0 and t = 1, the linear one at every t of SlerpTimes that gives  *)
(* a length std::sqrt returns exactly.                                     *)
(***************************************************************************)
slerp_step(q1, q2, t) ==
    /\ \/ t \in {FInt(0), FInt(1)}
       \/ /\ VeryClose(Dot(q1, q2)) \/ VeryClose(FNeg(Dot(q1, q2)))
          /\ LET out == Interpolated(q1, q2, t) IN IsSquare(Dot(out, out))
    /\ last' = Last("slerp", 0, TRUE, FALSE, <<q1, q2, t, slerp(q1, q2, t)>>)
    /\ UNCHANGED <<g_models, g_nextModelId, g_blendStates,
                   g_rendererInitialized, movedFromName, watch, threads>>

NextSlerp ==
    \E q1 \in SampleQuats, q2 \in SampleQuats, t \in SlerpTimes :
        slerp_step(q1, q2, t)

SpecSlerp == Init /\ [][NextSlerp]_vars

(***************************************************************************)
(* Native callers of the sampling functions.  A model loaded from one of   *)
(* SampleAssets is sampled at times of SampleTimes and posed.  After the   *)
(* load, last holds the file contents the model was built from.            *)
(***************************************************************************)
InitSample ==
    /\ movedFromName \in {"empty", "kept"}
    /\ \E gltf \in SampleAssets, local \in LoaderLocals,
          unset \in LoaderJointIndexes :
           /\ g_models = [i \in {1} |-> ModelFrom(gltf, local, unset)]
           /\ last = Last("load", 1, TRUE, FALSE, <<gltf>>)
    /\ g_nextModelId = 2
    /\ g_blendStates = << >>
    /\ g_rendererInitialized = FALSE
    /\ watch = NoWatch
    /\ threads = [t \in Threads |-> IdleThread]

\* The sample keeps every scale entry inside the bounds.
SampleInBounds(model) ==
    \A j \in DOMAIN model.skeleton.joints :
        LET s == model.skeleton.joints[j].localTransform.m0
        IN s.k = "fin" /\ Abs(s.n) <= MaxScaleTerm /\ s.d <= MaxScaleTerm

\* animation_sample(model_get(modelId), time)
animation_sample_step(modelId, time) ==
    /\ model_get(g_models, modelId)
    /\ SampleInBounds(animation_sample(g_models[modelId], time))
    /\ g_models' = [g_models EXCEPT ![modelId] = animation_sample(@, time)]
    /\ last' = Last("sample", modelId, TRUE, FALSE, <<time>>)
    /\ UNCHANGED <<threads, g_nextModelId, g_blendStates, g_rendererInitialized,
                   movedFromName, watch>>

\* animation_compute_bone_matrices(model_get(modelId))
animation_compute_bone_matrices_step(modelId) ==
    /\ model_get(g_models, modelId)
    /\ g_models' = [g_models EXCEPT
                       ![modelId] = animation_compute_bone_matrices(@)]
    /\ last' = Last("compute", modelId, TRUE, FALSE, << >>)
    /\ UNCHANGED <<threads, g_nextModelId, g_blendStates, g_rendererInitialized,
                   movedFromName, watch>>

NextSample ==
    \/ \E m \in ModelIds, t \in SampleTimes : animation_sample_step(m, t)
    \/ \E m \in ModelIds : animation_compute_bone_matrices_step(m)

SpecSample == InitSample /\ [][NextSample]_vars

(***************************************************************************)
(* Native callers that hand animation_sample any Model.  currentAnimation  *)
(* is a public field of the struct: the caller may have left it at an      *)
(* index of SampleCurrents, inside the clip list or past it, and the file  *)
(* may hold a skin and no animation.                                       *)
(***************************************************************************)
SampleCurrents == {0, 1}

\* A file with the skeleton of SampleAssets and no animation.
NoClipAsset == Gltf(SampleNodes, <<0, 1>>, SampleBinds, << >>)

InitAnyModel ==
    /\ movedFromName \in {"empty", "kept"}
    /\ \E gltf \in SampleAssets \cup {NoClipAsset}, local \in LoaderLocals,
          unset \in LoaderJointIndexes, current \in SampleCurrents :
           /\ g_models = [i \in {1} |->
                              [ModelFrom(gltf, local, unset)
                                   EXCEPT !.currentAnimation = current]]
           /\ last = Last("load", 1, TRUE, FALSE, <<gltf>>)
    /\ g_nextModelId = 2
    /\ g_blendStates = << >>
    /\ g_rendererInitialized = FALSE
    /\ watch = NoWatch
    /\ threads = [t \in Threads |-> IdleThread]

SpecAnyModel == InitAnyModel /\ [][NextSample]_vars

(***************************************************************************)
(* Claims.                                                                 *)
(***************************************************************************)
BlendOf(blends, modelId) == blends[FindBlend(blends, modelId)]

BlendCount(blends, modelId) ==
    Cardinality({i \in 1..Len(blends) : blends[i].modelId = modelId})

\* C1: after animation_set on a loaded model with a known clip name, no
\* blend state of that model exists.
C1_SetClearsBlend ==
    (last.op = "set" /\ last.found) => ~HasBlend(g_blendStates, last.modelId)

\* C2: every animation_set on a loaded model with a known clip name leaves
\* currentAnimation at the index registered for the name, animationTime at 0
\* and animationLooping at loop, whatever the state before.
C2_SetAnimationSetsState ==
    [][(last'.op = "set" /\ last'.found) =>
           LET m == last'.modelId
               animName == last'.args[1]
               loop == last'.args[2]
           IN /\ g_models'[m].currentAnimation =
                     g_models[m].animationNameToIndex[animName]
              /\ g_models'[m].animationTime = 0
              /\ g_models'[m].animationLooping = loop]_vars

\* C2 witness: a set to clip 1, not looping, of a model that had moved on
\* (a blend state was there before the call).
C2_Witness ==
    /\ last.op = "set" /\ last.found /\ last.hadBlend
    /\ g_models[last.modelId].currentAnimation = 1
    /\ g_models[last.modelId].animationTime = 0
    /\ ~g_models[last.modelId].animationLooping

\* C3: animation_set or animation_blend with an unknown clip name or an
\* unknown model identifier changes no model and no blend state.
C3_UnknownIsNoOp ==
    [][(last'.op \in {"set", "blend"} /\ ~last'.found) =>
           (g_models' = g_models /\ g_blendStates' = g_blendStates)]_vars

\* C3 witness: a blend request with an unknown clip name on a loaded model
\* whose blend is under way, a second model being loaded.
C3_Witness ==
    /\ last.op = "blend" /\ ~last.found /\ last.hadBlend
    /\ model_get(g_models, last.modelId)
    /\ Cardinality(DOMAIN g_models) = 2
    /\ BlendOf(g_blendStates, last.modelId).blendProgress = FRat(1, 2)

\* C4: every animation_blend with a known clip name leaves exactly one blend
\* state for the model, with from = the currentAnimation before the call,
\* to = the index registered for the name, the requested blendTime,
\* blendProgress = 0 and active = true; currentAnimation and animationTime
\* are unchanged.
C4_BlendRecordsRequest ==
    [][(last'.op = "blend" /\ last'.found) =>
           LET m == last'.modelId
               animName == last'.args[1]
               blendTime == last'.args[2]
           IN /\ BlendCount(g_blendStates', m) = 1
              /\ BlendOf(g_blendStates', m) =
                     [modelId |-> m,
                      fromAnimation |-> g_models[m].currentAnimation,
                      toAnimation |-> g_models[m].animationNameToIndex[animName],
                      blendTime |-> blendTime,
                      blendProgress |-> FInt(0),
                      active |-> TRUE]
              /\ g_models'[m].currentAnimation = g_models[m].currentAnimation
              /\ g_models'[m].animationTime = g_models[m].animationTime]_vars

\* C4 witness: a blend request that replaced a blend of the model, made
\* while clip 1 was current and its clock had advanced.
C4_Witness ==
    /\ last.op = "blend" /\ last.found /\ last.hadBlend
    /\ BlendOf(g_blendStates, last.modelId).fromAnimation = 1
    /\ BlendOf(g_blendStates, last.modelId).toAnimation = 0
    /\ g_models[last.modelId].animationTime > 0

\* C5: the blend-state vector holds at most one BlendState per model
\* identifier.
C5_OneBlendPerModel ==
    \A i, j \in 1..Len(g_blendStates) :
        g_blendStates[i].modelId = g_blendStates[j].modelId => i = j

\* C5 witness: two models have a blend state, the second request having
\* replaced a blend of its model.
C5_Witness ==
    /\ Len(g_blendStates) = 2
    /\ last.op = "blend" /\ last.found /\ last.hadBlend

\* C6: a frame that runs with dt takes each active blend of a loaded model
\* to p = blendProgress + dt / blendTime; if p >= 1, animation_update leaves
\* the model at the blend's to clip with animationTime 0 and no blend state;
\* if p < 1 it leaves currentAnimation alone and the blend state as it was
\* but for blendProgress = p.
C6_TickAdvancesBlend ==
    [][(last'.op = "frame" /\ last'.found) =>
           LET dt == last'.args[1]
               u == animation_update(g_models, g_blendStates, dt)
           IN \A i \in 1..Len(g_blendStates) :
                  LET b == g_blendStates[i]
                      m == b.modelId
                      p == FAdd(b.blendProgress, FDiv(dt, b.blendTime))
                  IN (b.active /\ model_get(g_models, m)) =>
                         /\ FGe(p, FInt(1)) =>
                                /\ u.models[m].currentAnimation = b.toAnimation
                                /\ u.models[m].animationTime = 0
                                /\ ~HasBlend(u.blends, m)
                                /\ g_models'[m].currentAnimation = b.toAnimation
                                /\ ~HasBlend(g_blendStates', m)
                         /\ FLt(p, FInt(1)) =>
                                /\ u.models[m].currentAnimation =
                                       g_models[m].currentAnimation
                                /\ g_models'[m].currentAnimation =
                                       g_models[m].currentAnimation
                                /\ HasBlend(g_blendStates', m)
                                /\ BlendOf(g_blendStates', m) =
                                       [b EXCEPT !.blendProgress = p]]_vars

\* C6 witness: a frame has completed the blend of a model that is now at
\* the target clip 1, its clock restarted from 0 and advanced by this frame.
C6_Witness ==
    /\ last.op = "frame" /\ last.found /\ last.hadBlend
    /\ g_blendStates = << >>
    /\ \E m \in DOMAIN g_models :
           /\ watch.modelId = m /\ watch.toAnimation = 1
           /\ g_models[m].currentAnimation = 1
           /\ ~g_models[m].animationLooping
           /\ g_models[m].animationTime = last.args[1]

\* C7: after an accepted blend request with blendTime B > 0 to a clip other
\* than the current one, and until the next command on the model, the model
\* is at the from clip with its blend active while the dt of the frames run
\* since the request sum to less than B, and at the target clip with no
\* blend state once they sum to B or more.
C7_BlendCompletesAtBlendTime ==
    watch.blendTime > 0 =>
        LET m == watch.modelId
        IN /\ model_get(g_models, m)
           /\ IF watch.elapsed < watch.blendTime
              THEN /\ g_models[m].currentAnimation = watch.fromAnimation
                   /\ HasBlend(g_blendStates, m)
                   /\ BlendOf(g_blendStates, m).active
                   /\ BlendOf(g_blendStates, m).toAnimation = watch.toAnimation
              ELSE /\ g_models[m].currentAnimation = watch.toAnimation
                   /\ ~HasBlend(g_blendStates, m)

\* C7 witness: a blend over MaxBlendTime completed by one frame with
\* dt = MaxBlendTime.
C7_Witness ==
    /\ last.op = "frame" /\ last.found /\ last.hadBlend
    /\ last.args[1] = MaxBlendTime
    /\ watch.blendTime = MaxBlendTime /\ watch.elapsed = MaxBlendTime
    /\ g_models[watch.modelId].currentAnimation = watch.toAnimation
    /\ g_models[watch.modelId].animationTime > 0

\* C8: a blend requested with blendTime <= 0 is rejected or completed by
\* the next frame: after a frame that ran, no blend state has blendTime <= 0.
C8_NonPositiveBlendEndsInOneTick ==
    (last.op = "frame" /\ last.found) =>
        \A i \in 1..Len(g_blendStates) : g_blendStates[i].blendTime > 0

\* C9: over every frame that runs (dt >= 0), the blendProgress of a blend
\* state that stays is at least what it was before the frame.
C9_ProgressNonDecreasing ==
    [][(last'.op = "frame" /\ last'.found) =>
           \A i \in 1..Len(g_blendStates) :
               LET b == g_blendStates[i]
               IN HasBlend(g_blendStates', b.modelId) =>
                      FGe(BlendOf(g_blendStates', b.modelId).blendProgress,
                          b.blendProgress)]_vars

\* C10: every blend state held between two calls has blendTime > 0 and
\* 0 <= blendProgress <= 1.
C10_BlendStateInRange ==
    \A i \in 1..Len(g_blendStates) :
        /\ g_blendStates[i].blendTime > 0
        /\ FGe(g_blendStates[i].blendProgress, FInt(0))
        /\ FGe(FInt(1), g_blendStates[i].blendProgress)

\* C11: every animation_stop on a loaded model leaves animationTime at 0,
\* no blend state of the model and currentAnimation as it was; from then
\* until the next command on the model, whatever frames run, the model
\* stays at that clip and has no blend state.
C11_StopClearsBlendKeepsClip ==
    /\ [][(last'.op = "stop" /\ last'.found) =>
              LET m == last'.modelId
              IN /\ g_models'[m].animationTime = 0
                 /\ ~HasBlend(g_blendStates', m)
                 /\ g_models'[m].currentAnimation =
                        g_models[m].currentAnimation]_vars
    /\ []((watch.modelId # 0 /\ watch.blendTime = 0) =>
              /\ model_get(g_models, watch.modelId)
              /\ g_models[watch.modelId].currentAnimation = watch.toAnimation
              /\ ~HasBlend(g_blendStates, watch.modelId))

\* C11 witness: a frame has run after the stop of a model that was blending
\* from clip 1 to clip 0 (the loop flag of that request still set).
C11_Witness ==
    /\ last.op = "frame" /\ last.found
    /\ watch.modelId # 0 /\ watch.blendTime = 0
    /\ g_models[watch.modelId].currentAnimation = 1
    /\ g_models[watch.modelId].animationTime > 0

\* C12: after every frame that ran, every model that loops a clip of
\* duration D > 0 has 0 <= animationTime < D.
C12_LoopingTimeBelowDuration ==
    (last.op = "frame" /\ last.found) =>
        \A m \in DOMAIN g_models :
            (/\ HasAnimation(g_models[m])
             /\ g_models[m].animationLooping
             /\ CurrentClip(g_models[m]).duration > 0) =>
                /\ 0 <= g_models[m].animationTime
                /\ g_models[m].animationTime < CurrentClip(g_models[m]).duration

\* C13: a frame that runs with dt leaves every model that loops a clip of
\* duration D > 0 at animationTime = (t + dt) mod D, t being the clock the
\* blend machine hands to the frame's clock update, and not finished.
C13_LoopingTickWraps ==
    [][(last'.op = "frame" /\ last'.found) =>
           LET dt == last'.args[1]
               u == animation_update(g_models, g_blendStates, dt)
           IN \A m \in DOMAIN u.models :
                  (/\ HasAnimation(u.models[m])
                   /\ u.models[m].animationLooping
                   /\ CurrentClip(u.models[m]).duration > 0) =>
                      /\ g_models'[m].animationTime =
                             (u.models[m].animationTime + dt)
                                 % CurrentClip(u.models[m]).duration
                      /\ ~animation_is_finished(g_models', m)]_vars

\* C14: a frame that runs with dt leaves every model that plays a clip
\* without looping at animationTime = t + dt, t being the clock the blend
\* machine hands to the frame's clock update; and in every state
\* animation_is_finished is true exactly for an unknown model, a model
\* without animation, and a non-looping model with animationTime >= the
\* duration of its current clip.
C14_NonLoopingRunsPastEnd ==
    /\ [][(last'.op = "frame" /\ last'.found) =>
              LET dt == last'.args[1]
                  u == animation_update(g_models, g_blendStates, dt)
              IN \A m \in DOMAIN u.models :
                     (HasAnimation(u.models[m]) /\ ~u.models[m].animationLooping) =>
                         g_models'[m].animationTime =
                             u.models[m].animationTime + dt]_vars
    /\ [](\A id \in ModelIds :
              animation_is_finished(g_models, id) <=>
                  \/ ~model_get(g_models, id)
                  \/ ~HasAnimation(g_models[id])
                  \/ /\ ~g_models[id].animationLooping
                     /\ g_models[id].animationTime >=
                            CurrentClip(g_models[id]).duration)

\* C14 witness: a frame has taken a non-looping model past the end of its
\* clip, and the model is finished.
C14_Witness ==
    /\ last.op = "frame" /\ last.found /\ last.args[1] > 0
    /\ \E m \in DOMAIN g_models :
           /\ HasAnimation(g_models[m])
           /\ ~g_models[m].animationLooping
           /\ g_models[m].animationTime > CurrentClip(g_models[m]).duration
           /\ animation_is_finished(g_models, m)

\* C15: in every state animation_get_progress is -1 for an unknown model
\* and for a model without animation, and within [0, 1] otherwise.
C15_ProgressInUnitRange ==
    \A id \in ModelIds :
        LET p == animation_get_progress(g_models, id)
        IN IF ~model_get(g_models, id) THEN p = FInt(0 - 1)
           ELSE IF ~HasAnimation(g_models[id]) THEN p = FInt(0 - 1)
           ELSE FGe(p, FInt(0)) /\ FGe(FInt(1), p)

\* The bone matrices of the pose of model at its animationTime: its current
\* clip sampled at that time, then composed.
PoseOf(model) ==
    animation_compute_bone_matrices(
        animation_sample(model, model.animationTime)).boneMatrices

\* The bone matrices of the pose that mixes, weighted by the blendProgress
\* of blend, the local transforms sampled at the model's animationTime from
\* the blend's from clip and from its to clip.
BlendedPoseOf(model, blend) ==
    LET from == animation_sample(
                    [model EXCEPT !.currentAnimation = blend.fromAnimation],
                    model.animationTime).skeleton.joints
        to == animation_sample(
                  [model EXCEPT !.currentAnimation = blend.toAnimation],
                  model.animationTime).skeleton.joints
        mix(a, b) == Mat(lerp(a.m0, b.m0, blend.blendProgress),
                         lerp(a.m12, b.m12, blend.blendProgress),
                         lerp(a.m15, b.m15, blend.blendProgress))
        joints == [j \in 1..Len(from) |->
                      [from[j] EXCEPT !.localTransform =
                           mix(from[j].localTransform, to[j].localTransform)]]
    IN animation_compute_bone_matrices(
           [model EXCEPT !.skeleton.joints = joints]).boneMatrices

\* C16: after every frame that ran, the boneMatrices of every model are
\* those of the pose of its current clip at its animationTime.
C16_FrameRecomputesBoneMatrices ==
    (last.op = "frame" /\ last.found) =>
        \A m \in DOMAIN g_models : g_models[m].boneMatrices = PoseOf(g_models[m])

\* C17: after every frame that ran, a model whose blend is active with
\* 0 < blendProgress < 1 has the boneMatrices of the pose interpolated
\* between the from clip's and the to clip's by blendProgress.
C17_BlendInterpolatesPoses ==
    (last.op = "frame" /\ last.found) =>
        \A i \in 1..Len(g_blendStates) :
            LET b == g_blendStates[i]
            IN (/\ b.active
                /\ model_get(g_models, b.modelId)
                /\ FLt(FInt(0), b.blendProgress)
                /\ FLt(b.blendProgress, FInt(1))) =>
                   g_models[b.modelId].boneMatrices =
                       BlendedPoseOf(g_models[b.modelId], b)

\* C18: a frame that runs while blend states of unloaded models exist ends
\* as the same frame run without them: those blend states are gone, no
\* model is added, and every loaded model and every other blend state is
\* what the frame makes of it alone.
C18_OrphanBlendDiscarded ==
    [][(last'.op = "frame" /\ last'.found) =>
           LET dt == last'.args[1]
               kept == SelectSeq(g_blendStates,
                                 LAMBDA s : model_get(g_models, s.modelId))
               r == gods_render_frame_result(g_models, kept, dt)
           IN /\ g_models' = r.models
              /\ g_blendStates' = r.blends
              /\ \A i \in 1..Len(g_blendStates) :
                     ~model_get(g_models, g_blendStates[i].modelId) =>
                         ~HasBlend(g_blendStates', g_blendStates[i].modelId)]_vars

\* C18 witness: a frame has discarded the blend state of an unloaded model
\* while the blend of a loaded model went on to one half.
C18_Witness ==
    /\ last.op = "frame" /\ last.found /\ last.modelId # 0
    /\ ~HasBlend(g_blendStates, last.modelId)
    /\ \E m \in DOMAIN g_models :
           /\ HasBlend(g_blendStates, m)
           /\ BlendOf(g_blendStates, m).blendProgress = FRat(1, 2)

\* C19: animation_set, animation_blend and animation_stop called for an
\* identifier m leave every other loaded model as it was and the blend
\* states of other identifiers as they were, in their order; when m names
\* no loaded model, that is every model and every blend state.
C19_CommandsTouchOnlyTheirModel ==
    [][(last'.op \in {"set", "blend", "stop"}) =>
           LET m == last'.modelId
           IN /\ \A i \in DOMAIN g_models :
                     i # m => (i \in DOMAIN g_models' /\ g_models'[i] = g_models[i])
              /\ SelectSeq(g_blendStates', LAMBDA s : s.modelId # m) =
                     SelectSeq(g_blendStates, LAMBDA s : s.modelId # m)]_vars

\* C19 witness: a model that was blending has been stopped while another
\* model is half way through its blend with its clock advanced.
C19_Witness ==
    /\ last.op = "stop" /\ last.found /\ last.hadBlend
    /\ \E i \in DOMAIN g_models :
           /\ i # last.modelId
           /\ g_models[i].animationTime > 0
           /\ HasBlend(g_blendStates, i)
           /\ BlendOf(g_blendStates, i).blendProgress = FRat(1, 2)

\* The value the keyframes give at time: the first keyframe's before it, the
\* last keyframe's from its time on, and between two adjacent keyframes
\* their interpolation by (time - k_i.time) / (k_{i+1}.time - k_i.time).
ClampedValue(keyframes, time) ==
    LET n == Len(keyframes)
    IN IF time < keyframes[1].time THEN FInt(keyframes[1].value)
       ELSE IF time >= keyframes[n].time THEN FInt(keyframes[n].value)
       ELSE LET i == CHOOSE i \in 1..(n - 1) :
                         /\ keyframes[i].time <= time
                         /\ time < keyframes[i + 1].time
            IN lerp(FInt(keyframes[i].value), FInt(keyframes[i + 1].value),
                    FDiv(time - keyframes[i].time,
                         keyframes[i + 1].time - keyframes[i].time))

\* C20: every animation_sample leaves the translation of the joint of each
\* translation channel with keyframes at the value its keyframes give at the
\* sample time: interpolated inside a pair, the first keyframe's before the
\* first, the last keyframe's at or after the last.
C20_SampleClampsToNearestKeyframe ==
    [][(last'.op = "sample") =>
           LET m == last'.modelId
               time == last'.args[1]
               channels == CurrentClip(g_models[m]).channels
           IN \A c \in 1..Len(channels) :
                  (/\ channels[c].keyframes # << >>
                   /\ channels[c].jointIndex < Len(g_models[m].skeleton.joints)
                   /\ channels[c].property = "Translation") =>
                      g_models'[m].skeleton.joints[channels[c].jointIndex + 1]
                              .localTransform.m12 =
                          ClampedValue(channels[c].keyframes, time)]_vars

\* ActingChannels without the test of jointIndex against the skeleton.
ActingChannels_any_joint(model) ==
    LET channels == CurrentClip(model).channels
    IN {c \in 1..Len(channels) : channels[c].keyframes # << >>}

\* The channels of the current clip of model that animation_sample acts on:
\* those with keyframes and a joint index inside the skeleton.
ActingChannels(model) ==
    LET channels == CurrentClip(model).channels
    IN {c \in 1..Len(channels) :
            /\ channels[c].keyframes # << >>
            /\ channels[c].jointIndex < Len(model.skeleton.joints)}

\* C21: every animation_sample leaves, for each channel with exactly one
\* keyframe, the channel's property of its joint at that keyframe's value
\* (the translation for a translation channel, the scale for a scale
\* channel), whatever the sample time and the local transform before.
C21_SingleKeyframeYieldsItsValue ==
    [][(last'.op = "sample") =>
           LET m == last'.modelId
               channels == CurrentClip(g_models[m]).channels
           IN \A c \in ActingChannels(g_models[m]) :
                  Len(channels[c].keyframes) = 1 =>
                      LET local == g_models'[m].skeleton
                                       .joints[channels[c].jointIndex + 1]
                                       .localTransform
                          value == FInt(channels[c].keyframes[1].value)
                      IN IF channels[c].property = "Translation"
                         THEN local.m12 = value
                         ELSE local.m0 = value]_vars

C23_SampleWritesOnlyChannelData ==
    [][(last'.op = "sample") =>
           LET m == last'.modelId
               old == g_models[m]
               new == g_models'[m]
               channels == CurrentClip(old).channels
               acting == ActingChannels(old)
           IN /\ [new EXCEPT !.skeleton = old.skeleton] = old
              /\ DOMAIN new.skeleton.joints = DOMAIN old.skeleton.joints
              /\ \A j \in DOMAIN old.skeleton.joints :
                     LET on == {c \in acting : channels[c].jointIndex + 1 = j}
                     IN /\ on = {} =>
                               new.skeleton.joints[j] = old.skeleton.joints[j]
                        /\ (\A c \in on : channels[c].property = "Translation") =>
                               [new.skeleton.joints[j] EXCEPT
                                    !.localTransform.m12 =
                                        old.skeleton.joints[j].localTransform.m12]
                                   = old.skeleton.joints[j]
              /\ acting = {} => new = old]_vars

\* C23 witness: a sample has moved the second joint half way between two
\* keyframes; its scale entry and the first joint are what the loader left.
C23_Witness ==
    /\ last.op = "sample"
    /\ LET model == g_models[last.modelId]
           channel == CurrentClip(model).channels[1]
       IN /\ channel.property = "Translation"
          /\ channel.jointIndex = 1
          /\ Len(model.skeleton.joints) = 2
          /\ model.skeleton.joints[2].localTransform.m12 = FRat(1, 2)
          /\ model.skeleton.joints[2].localTransform.m0 = FInt(2)
          /\ model.skeleton.joints[1].localTransform =
                 Mat(FInt(2), FInt(1), FInt(1))

\* Every joint's parent, when it has one, comes before it in the sequence.
ParentsPrecede(joints) ==
    \A i \in DOMAIN joints : joints[i].parentIndex < i - 1

\* global[i] of the pose composition: the parent's global transform times
\* the joint's local transform, or the local transform for a root.
RECURSIVE GlobalOf(_, _)
GlobalOf(joints, i) ==
    IF joints[i].parentIndex < 0 THEN joints[i].localTransform
    ELSE mat4_multiply(GlobalOf(joints, joints[i].parentIndex + 1),
                       joints[i].localTransform)

\* C24: every animation_compute_bone_matrices on a skeleton whose parents
\* precede their children leaves one bone matrix per joint, each
\* global[i] * inverseBind[i] with global[i] = global[parent] * local[i]
\* (local[i] for a root); a root joint whose local transform is the
\* identity gets its inverse-bind matrix.
C24_PoseComposition ==
    [][(last'.op = "compute") =>
           LET joints == g_models[last'.modelId].skeleton.joints
               bones == g_models'[last'.modelId].boneMatrices
           IN ParentsPrecede(joints) =>
                  /\ g_models'[last'.modelId].skeleton.joints = joints
                  /\ DOMAIN bones = DOMAIN joints
                  /\ \A i \in DOMAIN joints :
                         /\ bones[i] = mat4_multiply(GlobalOf(joints, i),
                                                     joints[i].inverseBindMatrix)
                         /\ (joints[i].parentIndex < 0
                                 /\ joints[i].localTransform = IdentityMat) =>
                                bones[i] = joints[i].inverseBindMatrix]_vars

\* C24 witness: a composition has given a child joint a bone matrix that
\* carries its parent's local transform, the two local transforms differing.
C24_Witness ==
    /\ last.op = "compute"
    /\ LET joints == g_models[last.modelId].skeleton.joints
           bones == g_models[last.modelId].boneMatrices
       IN /\ Len(joints) = 2
          /\ joints[2].parentIndex = 0
          /\ joints[1].parentIndex < 0
          /\ joints[1].localTransform # joints[2].localTransform
          /\ bones[2] = mat4_multiply(mat4_multiply(joints[1].localTransform,
                                                   joints[2].localTransform),
                                      joints[2].inverseBindMatrix)
          /\ bones[2] # mat4_multiply(joints[2].localTransform,
                                      joints[2].inverseBindMatrix)
          /\ bones[1] = mat4_multiply(joints[1].localTransform,
                                      joints[1].inverseBindMatrix)

\* C25: every loaded model's skeleton is topologically ordered: each
\* joint's parentIndex is -1 or an index of the skeleton strictly smaller
\* than the joint's own.
C25_SkeletonTopologicallyOrdered ==
    \A m \in DOMAIN g_models :
        \A i \in DOMAIN g_models[m].skeleton.joints :
            LET parentIndex == g_models[m].skeleton.joints[i].parentIndex
            IN \/ parentIndex = 0 - 1
               \/ parentIndex >= 0 /\ parentIndex < i - 1

\* C26: after a load, every channel of the model has a jointIndex inside
\* the skeleton, and the joint at that index is the one built from the
\* channel's target node (the skin lists the target node at that position).
C26_ChannelJointIndexValid ==
    (last.op = "load" /\ last.found) =>
        LET gltf == last.args[1]
            model == g_models[last.modelId]
        IN \A a \in DOMAIN model.animations :
               \A c \in DOMAIN model.animations[a].channels :
                   LET jointIndex == model.animations[a].channels[c].jointIndex
                       target_node == gltf.animations[a].channels[c].target_node
                   IN /\ jointIndex < Len(model.skeleton.joints)
                      /\ gltf.joints[jointIndex + 1] = target_node

\* C28: issuing a set, blend or stop command again, with the same
\* arguments, right after it was issued leaves the models and the blend
\* states as the first issue left them; a command that finds no model or
\* no clip changes neither.
C28_CommandsIdempotent ==
    [][/\ (last'.op \in {"set", "blend", "stop"} /\ ~last'.found) =>
              UNCHANGED <<g_models, g_blendStates>>
       /\ (last'.op = "set" /\ last'.found) =>
              animation_set(g_models', g_blendStates', last'.modelId,
                            last'.args[1], last'.args[2])
                  = State(g_models', g_blendStates')
       /\ (last'.op = "blend" /\ last'.found) =>
              animation_blend(g_models', g_blendStates', last'.modelId,
                              last'.args[1], last'.args[2], last'.args[3])
                  = State(g_models', g_blendStates')
       /\ (last'.op = "stop" /\ last'.found) =>
              animation_stop(g_models', g_blendStates', last'.modelId)
                  = State(g_models', g_blendStates')]_vars

\* C28 witness: a blend to another clip was accepted for a model that
\* already had a blend state, and has left that one state at progress 0.
C28_Witness ==
    /\ last.op = "blend"
    /\ last.found
    /\ last.hadBlend
    /\ BlendCount(g_blendStates, last.modelId) = 1
    /\ LET state == BlendOf(g_blendStates, last.modelId)
       IN /\ state.fromAnimation # state.toAnimation
          /\ state.fromAnimation = g_models[last.modelId].currentAnimation
          /\ state.blendProgress = FInt(0)
          /\ state.blendTime = last.args[2]

\* A blend state of model m towards clip c with blendTime > 0 is pending.
Blending(m, c) ==
    /\ model_get(g_models, m)
    /\ HasBlend(g_blendStates, m)
    /\ BlendOf(g_blendStates, m).toAnimation = c
    /\ BlendOf(g_blendStates, m).blendTime > 0

C27_ConcurrentCommandsSerialized ==
    (\A t \in Threads : threads[t].pc = "idle") =>
        /\ \A m \in ModelIds : BlendCount(g_blendStates, m) <= 1
        /\ \A i \in 1..Len(g_blendStates) :
               /\ model_get(g_models, g_blendStates[i].modelId)
               /\ g_blendStates[i].active

IsUnit(q) == Dot(q, q) = FInt(1)

\* q divided by its length.
Normalized(q) == [i \in 1..4 |-> FQuot(q[i], FSqrt(Dot(q, q)))]

\* C29: slerp of q1 and q2 at t returns a quaternion of unit norm; for unit
\* q1 and q2 it returns q1 at t = 0 and, at t = 1, q2, negated when the
\* dot product of q1 and q2 is negative; when the dot product (of q1 and
\* the possibly negated q2) exceeds 0.9995 it returns their normalized
\* linear interpolation.
C29_SlerpProperties ==
    (last.op = "slerp") =>
        LET q1 == last.args[1]
            q2 == last.args[2]
            t == last.args[3]
            out == last.args[4]
            negative == FLt(Dot(q1, q2), FInt(0))
            q2n == [i \in 1..4 |-> IF negative THEN FNeg(q2[i]) ELSE q2[i]]
        IN /\ IsUnit(out)
           /\ (IsUnit(q1) /\ IsUnit(q2) /\ t = FInt(0)) => out = q1
           /\ (IsUnit(q1) /\ IsUnit(q2) /\ t = FInt(1)) => out = q2n
           /\ VeryClose(Dot(q1, q2n)) =>
                  out = Normalized([i \in 1..4 |-> lerp(q1[i], q2n[i], t)])

\* C31: an accepted blend request leaves the looping behaviour of the
\* animation that is still playing as it was before the request
\* (animationLooping, and with it the wrapping of animationTime and the
\* result of animation_is_finished), and the requested loop flag is the
\* model's flag when a frame completes the blend and the target becomes
\* the current animation.
C31_BlendLoopGovernsTarget ==
    [][/\ (last'.op = "blend" /\ last'.found) =>
              /\ g_models'[last'.modelId].animationLooping
                     = g_models[last'.modelId].animationLooping
              /\ animation_is_finished(g_models', last'.modelId)
                     = animation_is_finished(g_models, last'.modelId)
       /\ (/\ last'.op = "frame"
           /\ watch.blendTime > 0
           /\ HasBlend(g_blendStates, watch.modelId)
           /\ ~HasBlend(g_blendStates', watch.modelId)
           /\ model_get(g_models', watch.modelId)) =>
              /\ g_models'[watch.modelId].currentAnimation = watch.toAnimation
              /\ g_models'[watch.modelId].animationLooping = watch.loop]_vars

\* C32: a frame that runs with dt and completes the blend of a model (the
\* model had a blend state before the frame, has none after it and is
\* still loaded) leaves the model at the blend's target clip with
\* animationTime = dt, wrapped by the target's duration D when the model
\* loops and dt > D: the clock of the from clip has no part in it.
C32_CompletionFrameRestartsClock ==
    [][(last'.op = "frame" /\ last'.found) =>
           \A m \in DOMAIN g_models :
               (HasBlend(g_blendStates, m) /\ ~HasBlend(g_blendStates', m)) =>
                   LET dt == last'.args[1]
                       to == BlendOf(g_blendStates, m).toAnimation
                       D == g_models[m].animations[to + 1].duration
                   IN /\ g_models'[m].currentAnimation = to
                      /\ g_models'[m].animationTime =
                             IF g_models'[m].animationLooping /\ dt > D
                             THEN dt % D ELSE dt]_vars

\* C32 witness: a frame with dt > 0 has completed a blend that took more
\* than one frame, so the from clip's clock had advanced, and the model is
\* at the other clip with its clock at the frame's dt.
C32_Witness ==
    /\ last.op = "frame" /\ last.found /\ last.hadBlend
    /\ last.args[1] > 0
    /\ watch.blendTime > last.args[1]
    /\ watch.elapsed = watch.blendTime
    /\ watch.fromAnimation # watch.toAnimation
    /\ model_get(g_models, watch.modelId)
    /\ ~HasBlend(g_blendStates, watch.modelId)
    /\ g_models[watch.modelId].currentAnimation = watch.toAnimation
    /\ g_models[watch.modelId].animationTime = last.args[1]

\* C33: in every state reached through loads, set, blend and stop
\* commands, frames and unloads, every loaded model with at least one clip
\* has currentAnimation < animations.size(), and every blend state that
\* names a loaded model has fromAnimation and toAnimation below the size
\* of that model's clip list.
C33_AnimationIndicesValid ==
    /\ \A m \in DOMAIN g_models :
           g_models[m].animations # << >> =>
               /\ 0 <= g_models[m].currentAnimation
               /\ g_models[m].currentAnimation < Len(g_models[m].animations)
    /\ \A i \in 1..Len(g_blendStates) :
           model_get(g_models, g_blendStates[i].modelId) =>
               LET n == Len(g_models[g_blendStates[i].modelId].animations)
               IN /\ 0 <= g_blendStates[i].fromAnimation
                  /\ g_blendStates[i].fromAnimation < n
                  /\ 0 <= g_blendStates[i].toAnimation
                  /\ g_blendStates[i].toAnimation < n

\* C33 witness: the first model was unloaded; the second one, with two
\* clips, plays its second clip and has a blend state back to the first.
C33_Witness ==
    /\ g_nextModelId = 3
    /\ ~model_get(g_models, 1)
    /\ model_get(g_models, 2)
    /\ Len(g_models[2].animations) = 2
    /\ g_models[2].currentAnimation = 1
    /\ HasBlend(g_blendStates, 2)
    /\ BlendOf(g_blendStates, 2).fromAnimation = 1
    /\ BlendOf(g_blendStates, 2).toAnimation = 0

\* C34: animation_sample called again for the same model, clip and time
\* right after a call leaves every joint's localTransform as that call
\* left it, scale channels on joints without a rotation channel included.
C34_SampleIdempotent ==
    [][(last'.op = "sample") =>
           animation_sample(g_models'[last'.modelId], last'.args[1])
               .skeleton.joints
               = g_models'[last'.modelId].skeleton.joints]_vars

\* C35: for every loaded model whose clips have pairwise distinct names,
\* animationNameToIndex maps the name of every clip to that clip's index
\* in animations, so animation_set and animation_blend called with the
\* name of a loaded clip find it and select that clip.
C35_NameToIndexComplete ==
    \A m \in DOMAIN g_models :
        LET model == g_models[m]
            clips == model.animations
        IN (\A i, j \in DOMAIN clips :
                clips[i].name = clips[j].name => i = j) =>
               \A i \in DOMAIN clips :
                   /\ clips[i].name \in DOMAIN model.animationNameToIndex
                   /\ model.animationNameToIndex[clips[i].name] = i - 1
                   /\ animation_set(g_models, g_blendStates, m,
                                    clips[i].name, TRUE)
                          .models[m].currentAnimation = i - 1
                   /\ \E b \in 1..Len(animation_blend(g_models, g_blendStates,
                                     m, clips[i].name, 1, TRUE).blends) :
                          LET st == animation_blend(g_models, g_blendStates,
                                        m, clips[i].name, 1, TRUE).blends[b]
                          IN st.modelId = m /\ st.toAnimation = i - 1

\* The keyframe indices (from 0) animation_sample reads of a channel it
\* acts on: the search reads keyframes[i] and keyframes[i + 1] for every i
\* up to the first hit, or up to size() - 2 when there is none, and the
\* interpolation reads keyframes[k0] and keyframes[k1].
KeyframeReads(keyframes, time) ==
    LET hits == {i \in 0..(Len(keyframes) - 2) :
                     /\ time >= keyframes[i + 1].time
                     /\ time < keyframes[i + 2].time}
        visited == {i \in 0..(Len(keyframes) - 2) : \A h \in hits : i <= h}
        ks == FindKeys(keyframes, time)
    IN visited \cup {i + 1 : i \in visited} \cup {ks.k0, ks.k1}

\* What one animation_sample(model, time) reads and writes: nothing after
\* an early return; else, for each channel it acts on, the keyframe pair,
\* the keyframe indices read and the joint index written.
SampleAccesses(model, time) ==
    IF model.animations = << >> THEN {}
    ELSE IF model.currentAnimation >= Len(model.animations) THEN {}
    ELSE {[channel |-> c,
           k0 |-> FindKeys(CurrentClip(model).channels[c].keyframes, time).k0,
           k1 |-> FindKeys(CurrentClip(model).channels[c].keyframes, time).k1,
           reads |-> KeyframeReads(CurrentClip(model).channels[c].keyframes,
                                   time),
           size |-> Len(CurrentClip(model).channels[c].keyframes),
           joint |-> CurrentClip(model).channels[c].jointIndex] :
              c \in ActingChannels(model)}

\* C36: for every model and every sample time, animation_sample reads
\* keyframes only at indices below the channel's number of keyframes,
\* with 0 <= k0 <= k1 < that number, and writes only to joints at indices
\* below the size of the skeleton; for a model without clips or with
\* currentAnimation outside the clip list it reads and writes nothing and
\* leaves the model as it is.
C36_SampleStaysInBounds ==
    \A m \in DOMAIN g_models : \A time \in SampleTimes :
        /\ \A a \in SampleAccesses(g_models[m], time) :
               /\ \A i \in a.reads : 0 <= i /\ i < a.size
               /\ 0 <= a.k0 /\ a.k0 <= a.k1 /\ a.k1 < a.size
               /\ 0 <= a.joint
               /\ a.joint < Len(g_models[m].skeleton.joints)
        /\ ~HasAnimation(g_models[m]) =>
               /\ SampleAccesses(g_models[m], time) = {}
               /\ animation_sample(g_models[m], time) = g_models[m]

\* C36 witness: a model whose clip has a channel with one keyframe, bound
\* to a joint of the skeleton, was sampled after that keyframe's time: the
\* pair is (0, 0) and the joint holds the keyframe's value.
C36_Witness ==
    /\ last.op = "sample"
    /\ HasAnimation(g_models[1])
    /\ \E a \in SampleAccesses(g_models[1], last.args[1]) :
           LET channel == CurrentClip(g_models[1]).channels[a.channel]
           IN /\ a.size = 1 /\ a.k0 = 0 /\ a.k1 = 0
              /\ channel.property = "Translation"
              /\ channel.keyframes[1].time < last.args[1]
              /\ channel.keyframes[1].value > 0
              /\ g_models[1].skeleton.joints[a.joint + 1].localTransform.m12
                     = FInt(channel.keyframes[1].value)

====
